---------------------------- MODULE Spec2Model ----------------------------
(***************************************************************************)
(* A model of webappanalyzer: the fingerprint micro-language compiler      *)
(* (src/src/tech/parse.rs) and the confidence-scored match evaluation      *)
(* (src/src/tech/check.rs, src/src/lib.rs).                                *)
(*                                                                         *)
(* Text is a sequence of tokens.  A token is one character with a role in  *)
(* the micro-language (backslash, ";", ":", "?", "(", ")", "+", "-", a     *)
(* digit) or a block of ordinary characters (a word) that holds none of    *)
(* them.  Option<T> is a sequence: <<>> is None and <<x>> is Some(x).      *)
(* Result<T, E> is a record tagged "Ok" or "Err"; a panic (unwrap on None  *)
(* or Err, unreachable!(), an index that is out of range) is tagged        *)
(* "Panic".                                                                *)
(***************************************************************************)
EXTENDS Integers, Sequences, FiniteSets, TLC

VARIABLES
    authored,   \* the authored string, list or declarations handed to the loader
    kind,       \* the inner parser of the string, or the category of the list
    parsed,     \* the outcome of compiling or loading it
    input,      \* the text a compiled rule is evaluated against
    outcome,    \* the outcome of evaluating the rule or the technology
    techs,      \* WappAnalyzer.techs: technology name -> WappTech
    page,       \* the page under analysis
    results,    \* what WappAnalyzer::check returned
    evaluated,  \* the rule evaluations check made, in order
    pc          \* position in the life cycle

vars == <<authored, kind, parsed, input, outcome, techs, page, results,
          evaluated, pc>>

-----------------------------------------------------------------------------
(* Option and Result.                                                      *)

None == <<>>

Some(x) == <<x>>

IsSome(o) == o /= <<>>

Ok(v) == [tag |-> "Ok", value |-> v]

Err(e) == [tag |-> "Err", error |-> e]

Panic(where) == [tag |-> "Panic", at |-> where]

\* let v = ...; then the rest of the function, F, with v bound.
Let(v, F(_)) == F(v)

-----------------------------------------------------------------------------
(* Text.                                                                   *)

BS == "\\"

Digits == {"0", "1", "2", "3", "4", "5", "6", "7", "8", "9"}

DigitVal(d) ==
    CASE d = "0" -> 0 [] d = "1" -> 1 [] d = "2" -> 2 [] d = "3" -> 3
      [] d = "4" -> 4 [] d = "5" -> 5 [] d = "6" -> 6 [] d = "7" -> 7
      [] d = "8" -> 8 [] d = "9" -> 9

AllDigits(s) == \A i \in 1..Len(s) : s[i] \in Digits

\* Position of the first occurrence of the two-token delimiter, 0 if none.
FindDelim(s) ==
    IF \E i \in 1..(Len(s) - 1) : s[i] = BS /\ s[i + 1] = ";"
    THEN CHOOSE i \in 1..(Len(s) - 1) :
            /\ s[i] = BS /\ s[i + 1] = ";"
            /\ \A j \in 1..(i - 1) : ~(s[j] = BS /\ s[j + 1] = ";")
    ELSE 0

\* str::split("\\;"): the pieces between non-overlapping occurrences, left
\* to right; always at least one piece.
RECURSIVE SplitDelim(_)
SplitDelim(s) ==
    LET i == FindDelim(s)
    IN  IF i = 0 THEN <<s>>
        ELSE <<SubSeq(s, 1, i - 1)>> \o SplitDelim(SubSeq(s, i + 2, Len(s)))

\* Position of the first token t in s, 0 if none.
FindFirst(s, t) ==
    IF \E i \in 1..Len(s) : s[i] = t
    THEN CHOOSE i \in 1..Len(s) : s[i] = t /\ \A j \in 1..(i - 1) : s[j] /= t
    ELSE 0

\* str::split_once(':'): None, or Some(<<before, after>>).
SplitOnce(p, t) ==
    LET i == FindFirst(p, t)
    IN  IF i = 0 THEN None
        ELSE Some(<<SubSeq(p, 1, i - 1), SubSeq(p, i + 1, Len(p))>>)

\* The checked accumulation of <i32 as FromStr>::from_str: digits are added
\* to a positive number and subtracted from a negative one, and a step that
\* leaves the 32-bit range is an overflow (-1 here).
RECURSIVE AccI32(_, _, _)
AccI32(ds, acc, neg) ==
    IF ds = <<>> THEN acc
    ELSE IF acc > 214748364
            \/ (acc = 214748364 /\ DigitVal(Head(ds)) > (IF neg THEN 8 ELSE 7))
    THEN 0 - 1
    ELSE AccI32(Tail(ds), 10 * acc + DigitVal(Head(ds)), neg)

\* <i32 as FromStr>::from_str: an optional sign, then one or more digits,
\* within the 32-bit range.  The magnitude of all but the last digit is
\* accumulated first, so that -2^31 itself stays within reach.
ParseI32(v) ==
    IF v = <<>> THEN Err("Empty")
    ELSE LET neg == v[1] = "-"
             ds  == IF v[1] \in {"+", "-"} THEN Tail(v) ELSE v
             d   == DigitVal(ds[Len(ds)])
         IN  IF ds = <<>> \/ ~AllDigits(ds) THEN Err("InvalidDigit")
             ELSE Let(AccI32(SubSeq(ds, 1, Len(ds) - 1), 0, neg), LAMBDA m :
                    IF m < 0 \/ m > 214748364
                       \/ (m = 214748364 /\ d > (IF neg THEN 8 ELSE 7))
                    THEN Err("Overflow")
                    ELSE IF neg THEN Ok((0 - 10 * m) - d) ELSE Ok(10 * m + d))

\* The characters \d matches: the regex crate's \d is Unicode-aware, so it
\* takes the decimal digits of every script.  U+0663 (ARABIC-INDIC DIGIT
\* THREE) stands for those outside ASCII.
DecimalDigits == Digits \cup {"U+0663"}

\* The digits of usize::MAX on a 64-bit target, 18446744073709551615.
UsizeMaxDigits ==
    <<"1", "8", "4", "4", "6", "7", "4", "4", "0", "7", "3", "7", "0", "9",
      "5", "5", "1", "6", "1", "5">>

\* A run of ASCII digits without its leading zeros (one digit is kept).
RECURSIVE StripZeros(_)
StripZeros(ds) ==
    IF Len(ds) > 1 /\ Head(ds) = "0" THEN StripZeros(Tail(ds)) ELSE ds

\* a <= b for two runs of ASCII digits of the same length.
RECURSIVE DigitsLeq(_, _)
DigitsLeq(a, b) ==
    IF a = <<>> THEN TRUE
    ELSE IF DigitVal(Head(a)) /= DigitVal(Head(b))
    THEN DigitVal(Head(a)) < DigitVal(Head(b))
    ELSE DigitsLeq(Tail(a), Tail(b))

\* The number a run of digits denotes: the integer when it is below 2^31,
\* and else the digits themselves, with i at 2^31 - 1 (no pattern has that
\* many groups, so every such index selects the same, absent, group).
Index(n, ds) == [i |-> n, digits |-> ds]

\* <usize as FromStr>::from_str on the capture of \d+: an error on a digit
\* outside ASCII and on a number above usize::MAX.
ParseUsize(ds) ==
    IF ~AllDigits(ds) THEN Err("InvalidDigit")
    ELSE Let(StripZeros(ds), LAMBDA z :
           IF Len(z) > Len(UsizeMaxDigits)
              \/ (Len(z) = Len(UsizeMaxDigits) /\ ~DigitsLeq(z, UsizeMaxDigits))
           THEN Err("PosOverflow")
           ELSE Let(ParseI32(z), LAMBDA r :
                  IF r.tag = "Ok" THEN Ok(Index(r.value, <<>>))
                  ELSE Ok(Index(2147483647, z))))

-----------------------------------------------------------------------------
(* The version expression compiler.                                        *)

Const(s) == [tag |-> "Const", s |-> s, i |-> 0]

Var(i) == [tag |-> "Var", s |-> <<>>, i |-> i]

\* Self::Var(cond_var) of a parsed index.
VarOf(index) == [tag |-> "Var", s |-> index.digits, i |-> index.i]

Always(v) == [tag |-> "Always", value |-> v]

Conditional(c, t, f) ==
    [tag |-> "Conditional", cond_var |-> c, true_expr |-> t, false_expr |-> f]

ParseError(what) == Err([kind |-> what, key |-> <<>>])

\* Position of the leftmost backslash that a digit follows, 0 if none: where
\* the leftmost match of \\(\d+) starts.
FindBackref(s) ==
    IF \E i \in 1..(Len(s) - 1) : s[i] = BS /\ s[i + 1] \in DecimalDigits
    THEN CHOOSE i \in 1..(Len(s) - 1) :
            /\ s[i] = BS /\ s[i + 1] \in DecimalDigits
            /\ \A j \in 1..(i - 1) : ~(s[j] = BS /\ s[j + 1] \in DecimalDigits)
    ELSE 0

\* A run of digits cut after its first digit.
DigitRunOne(s, i) == i

\* The last position of the run of digits that starts at position i.
RECURSIVE DigitRunEnd(_, _)
DigitRunEnd(s, i) ==
    IF i < Len(s) /\ s[i + 1] \in DecimalDigits THEN DigitRunEnd(s, i + 1)
    ELSE i

\* WappTechVersionValue::parse: Result<Option<Self>, Error>.
WappTechVersionValueParse(s) ==
    IF s = <<>> THEN Ok(None)
    ELSE Let(FindBackref(s), LAMBDA b :
           IF b = 0 THEN Ok(Some(Const(s)))
           ELSE Let(DigitRunEnd(s, b + 1), LAMBDA e :
                  IF (e - b) + 1 /= Len(s)
                  THEN ParseError("MalformedBackreference")
                  ELSE Let(ParseUsize(SubSeq(s, b + 1, e)), LAMBDA n :
                         IF n.tag = "Ok" THEN Ok(Some(VarOf(n.value)))
                         ELSE ParseError("BackreferenceNotInteger"))))

\* The three pieces around the first "?" and the first ":" after it,
\* whatever characters follow the ":".
ConditionalShapeAnySuffix(s) ==
    Let(FindFirst(s, "?"), LAMBDA q :
      IF q = 0 THEN None
      ELSE Let(FindFirst(SubSeq(s, q + 1, Len(s)), ":"), LAMBDA c :
             IF c = 0 THEN None
             ELSE Some(<<SubSeq(s, 1, q - 1),
                         SubSeq(s, q + 1, q + c - 1),
                         SubSeq(s, q + c + 1, Len(s))>>)))

\* The captures of ^([^?]*)\?([^:]*):(.*)$ : None, or Some of the three
\* pieces around the first "?" and the first ":" after it.  The "." of the
\* last group takes no line feed and "$" is the end of the text, so a line
\* feed after the ":" leaves the expression unmatched.
ConditionalShape(s) ==
    Let(FindFirst(s, "?"), LAMBDA q :
      IF q = 0 THEN None
      ELSE Let(FindFirst(SubSeq(s, q + 1, Len(s)), ":"), LAMBDA c :
             IF c = 0 THEN None
             ELSE IF \E j \in (q + c + 1)..Len(s) : s[j] = "\n" THEN None
             ELSE Some(<<SubSeq(s, 1, q - 1),
                         SubSeq(s, q + 1, q + c - 1),
                         SubSeq(s, q + c + 1, Len(s))>>)))

\* The Some(c) arm of WappTechVersionPattern::parse, given the three
\* pieces compiled.
ConditionalOf(cv, te, fe) ==
    IF cv.tag = "Err" THEN cv
    ELSE IF cv.value = None THEN ParseError("EmptyCondition")
    ELSE IF cv.value[1].tag = "Const" THEN ParseError("ConstantInCondition")
    ELSE IF te.tag = "Err" THEN te
    ELSE IF fe.tag = "Err" THEN fe
    ELSE Ok(Conditional(cv.value[1].i, te.value, fe.value))

\* The None arm of WappTechVersionPattern::parse, given the whole string
\* compiled.
AlwaysOf(v) ==
    IF v.tag = "Err" THEN v
    ELSE IF v.value = None THEN ParseError("EmptyVersion")
    ELSE Ok(Always(v.value[1]))

\* WappTechVersionPattern::parse: Result<Self, Error>.
WappTechVersionPatternParse(s) ==
    Let(ConditionalShape(s), LAMBDA shape :
      IF IsSome(shape)
      THEN ConditionalOf(WappTechVersionValueParse(shape[1][1]),
                         WappTechVersionValueParse(shape[1][2]),
                         WappTechVersionValueParse(shape[1][3]))
      ELSE AlwaysOf(WappTechVersionValueParse(s)))

-----------------------------------------------------------------------------
(* Regular expressions and selectors: the libraries behind the inner       *)
(* parsers.  The patterns of the model are sequences of atoms: a literal   *)
(* token, or a capture group around one literal, each optionally followed  *)
(* by "?" (greedy, zero or one).  An unbalanced "(", a "?" with nothing to *)
(* repeat and a backslash are compile errors, as they are in the regex     *)
(* crate (which knows no backreference and no trailing backslash).         *)

IsLiteral(t) == t \notin {"(", ")", "?", BS}

Atom(w, cap, opt) == [w |-> w, cap |-> cap, opt |-> opt]

\* An atom in front of the rest of a compiled pattern.
Cons(atom, rest) ==
    IF rest.tag = "Err" THEN rest ELSE Ok(<<atom>> \o rest.value)

\* Regex::new on the bare content.
RECURSIVE RegexNew(_)
RegexNew(t) ==
    IF t = <<>> THEN Ok(<<>>)
    ELSE LET group == t[1] = "(" /\ Len(t) >= 3 /\ IsLiteral(t[2]) /\ t[3] = ")"
             n     == IF group THEN 3 ELSE 1
             opt   == Len(t) > n /\ t[n + 1] = "?"
         IN  IF group \/ IsLiteral(t[1])
             THEN Cons(Atom(t[IF group THEN 2 ELSE 1], group, opt),
                       RegexNew(SubSeq(t, IF opt THEN n + 2 ELSE n + 1, Len(t))))
             ELSE ParseError("Content")

\* The match of atoms k.. at position pos: None, or Some of where it ends
\* and what the groups captured.  An optional atom is taken when the rest
\* still matches, skipped otherwise.
RECURSIVE MatchAt(_, _, _, _, _)
MatchAt(atoms, k, inp, pos, caps) ==
    IF k > Len(atoms) THEN Some([end |-> pos, groups |-> caps])
    ELSE IF pos <= Len(inp) /\ inp[pos] = atoms[k].w
    THEN Let(MatchAt(atoms, k + 1, inp, pos + 1,
                     IF atoms[k].cap THEN Append(caps, Some(<<atoms[k].w>>))
                     ELSE caps),
             LAMBDA taken :
               IF IsSome(taken) \/ ~atoms[k].opt THEN taken
               ELSE MatchAt(atoms, k + 1, inp, pos,
                            IF atoms[k].cap THEN Append(caps, None) ELSE caps))
    ELSE IF atoms[k].opt
    THEN MatchAt(atoms, k + 1, inp, pos,
                 IF atoms[k].cap THEN Append(caps, None) ELSE caps)
    ELSE None

\* The first position from p on where the pattern matches, with the match.
RECURSIVE Search(_, _, _)
Search(atoms, inp, p) ==
    IF p > Len(inp) + 1 THEN None
    ELSE Let(MatchAt(atoms, 1, inp, p, <<>>), LAMBDA m :
           IF IsSome(m)
           THEN Some([whole  |-> SubSeq(inp, p, m[1].end - 1),
                      groups |-> m[1].groups])
           ELSE Search(atoms, inp, p + 1))

\* Regex::captures: the leftmost match, None if there is none.  groups[i]
\* is None for a group that took no part in the match.
RegexCaptures(atoms, inp) == Search(atoms, inp, 1)

\* Captures::get(i): group 0 is the whole match.
CapturesGet(c, i) ==
    IF i = 0 THEN Some(c.whole)
    ELSE IF i \in 1..Len(c.groups) THEN c.groups[i]
    ELSE None

\* Selector::parse: a selector is a non-empty run of words.
SelectorParse(t) ==
    IF /\ t /= <<>>
       /\ \A i \in 1..Len(t) :
             IsLiteral(t[i]) /\ t[i] \notin Digits \cup {":", ";", "+", "-"}
    THEN Ok(t)
    ELSE ParseError("Content")

-----------------------------------------------------------------------------
(* The tag directive parser.                                               *)

Kinds == {"pattern", "string", "selector", "exists"}

\* The closures handed to Tagged::parse as inner_parser.
InnerParser(k, t) ==
    CASE k = "pattern"  -> RegexNew(t)
      [] k = "string"   -> Ok(t)
      [] k = "selector" -> SelectorParse(t)
      [] k = "exists"   -> IF t /= <<>> THEN ParseError("Content") ELSE Ok(<<>>)

Tagged(inner, confidence, version) ==
    [inner |-> inner, confidence |-> confidence, version |-> version]

\* The loop of Tagged::parse over the segments after the first.
RECURSIVE ParseTags(_, _, _, _)
ParseTags(parts, n, confidence, version) ==
    IF n > Len(parts) THEN Ok([confidence |-> confidence, version |-> version])
    ELSE Let(SplitOnce(parts[n], ":"), LAMBDA kv :
           IF kv = None THEN Panic("split_once")
           ELSE IF kv[1][1] = <<"confidence">>
           THEN Let(ParseI32(kv[1][2]), LAMBDA c :
                  IF c.tag = "Err" THEN Panic("confidence")
                  ELSE ParseTags(parts, n + 1, c.value, version))
           ELSE IF kv[1][1] = <<"version">>
           THEN Let(WappTechVersionPatternParse(kv[1][2]), LAMBDA p :
                  IF p.tag = "Err" THEN p
                  ELSE ParseTags(parts, n + 1, confidence, Some(p.value)))
           ELSE Err([kind |-> "UnknownTag", key |-> kv[1][1]]))

\* The end of Tagged::parse with the version directive left out.
TaggedOfNoVersion(inner, tags) ==
    IF inner.tag = "Err" THEN inner
    ELSE Ok([inner |-> inner.value, confidence |-> tags.confidence,
             version |-> None])

\* The end of Tagged::parse: the rule, once the content is compiled.
TaggedOf(inner, tags) ==
    IF inner.tag = "Err" THEN inner
    ELSE Ok(Tagged(inner.value, tags.confidence, tags.version))

\* Tagged::parse with the content compiled before the directives are read.
TaggedParseContentFirst(s, k) ==
    Let(SplitDelim(s), LAMBDA parts :
      Let(InnerParser(k, parts[1]), LAMBDA inner :
        IF inner.tag = "Err" THEN inner
        ELSE Let(ParseTags(parts, 2, 100, None), LAMBDA tags :
               IF tags.tag /= "Ok" THEN tags
               ELSE TaggedOf(inner, tags.value))))

\* Tagged::parse.
TaggedParse(s, k) ==
    Let(SplitDelim(s), LAMBDA parts :
      Let(ParseTags(parts, 2, 100, None), LAMBDA tags :
        IF tags.tag /= "Ok" THEN tags
        ELSE TaggedOf(InnerParser(k, parts[1]), tags.value)))

\* WappTechDomPatttern::from_selector.
FromSelector(s) ==
    Let(TaggedParse(s, "selector"), LAMBDA t :
      IF t.tag /= "Ok" THEN t
      ELSE Ok([selector   |-> t.value.inner,
               exists     |-> Tagged(<<>>, t.value.confidence, t.value.version),
               text       |-> None,
               attributes |-> <<>>]))

-----------------------------------------------------------------------------
(* The rule evaluator.  A check returns Ok(None), Ok(Some(result)) or      *)
(* panics.                                                                 *)

CheckResult(confidence, version) ==
    [confidence |-> confidence, version |-> version]

\* Some(x) of a resolved value; a panic stays one.
OkSome(r) == IF r.tag = "Ok" THEN Ok(Some(r.value)) ELSE r

\* <WappTechVersionValue as ResolveVersion>::resolve; captures[i] panics
\* when group i is not part of the match.
ResolveValue(v, c) ==
    IF v.tag = "Const" THEN Ok(v.s)
    ELSE Let(CapturesGet(c, v.i), LAMBDA g :
           IF g = None THEN Panic("captures index") ELSE Ok(g[1]))

\* <Option<WappTechVersionValue> as ResolveVersion>::resolve.
ResolveOption(o, c) ==
    IF o = None THEN Ok(None) ELSE OkSome(ResolveValue(o[1], c))

\* <Tagged<()> as WappTechCheck<()>>::check.
TaggedUnitCheck(rule) ==
    IF rule.version = None
    THEN Ok(Some(CheckResult(rule.confidence, None)))
    ELSE IF rule.version[1].tag = "Always" /\ rule.version[1].value.tag = "Const"
    THEN Ok(Some(CheckResult(rule.confidence, Some(rule.version[1].value.s))))
    ELSE Panic("unreachable")

\* The version of a match: the match on &self.version in the check of a
\* Tagged<Regex>.
ResolveVersion(version, c) ==
    IF version = None THEN Ok(None)
    ELSE IF version[1].tag = "Always"
    THEN OkSome(ResolveValue(version[1].value, c))
    ELSE IF IsSome(CapturesGet(c, version[1].cond_var))
    THEN ResolveOption(version[1].true_expr, c)
    ELSE ResolveOption(version[1].false_expr, c)

\* The result of a match, once its version is resolved.
ResultOf(confidence, version) ==
    IF version.tag = "Ok" THEN Ok(Some(CheckResult(confidence, version.value)))
    ELSE version

\* <Tagged<Regex> as WappTechCheck<&str>>::check.
TaggedRegexCheck(rule, inp) ==
    Let(RegexCaptures(rule.inner, inp), LAMBDA captures :
      IF captures = None THEN Ok(None)
      ELSE ResultOf(rule.confidence, ResolveVersion(rule.version, captures[1])))

-----------------------------------------------------------------------------
(* The confidence aggregator.  Every check that combines outcomes keeps an *)
(* accumulator: the best result so far, whether the function has returned  *)
(* (and what), whether it panicked, and the rule evaluations it made.      *)

NewAcc == [best |-> None, done |-> FALSE, ret |-> None, panicked |-> FALSE,
           log |-> <<>>]

\* handle_check_result!($check_call, $best_result), given what $check_call
\* evaluated to.
HandleCheckResultNoReturn(acc, r) ==
    IF r.tag = "Panic" THEN [acc EXCEPT !.done = TRUE, !.panicked = TRUE]
    ELSE IF r.value = None THEN acc
    ELSE LET x == r.value[1]
         IN  IF x.confidence > (IF acc.best = None THEN 0
                                ELSE acc.best[1].confidence)
             THEN [acc EXCEPT !.best = Some(x)]
             ELSE acc

HandleCheckResult(acc, r) ==
    IF r.tag = "Panic" THEN [acc EXCEPT !.done = TRUE, !.panicked = TRUE]
    ELSE IF r.value = None THEN acc
    ELSE LET x == r.value[1]
         IN  IF x.confidence >= 100
             THEN [acc EXCEPT !.done = TRUE, !.ret = Some(x)]
             ELSE IF x.confidence > (IF acc.best = None THEN 0
                                     ELSE acc.best[1].confidence)
             THEN [acc EXCEPT !.best = Some(x)]
             ELSE acc

\* What a check returns at its end: the early return if there was one,
\* best_result otherwise.
Finish(acc) ==
    [res |-> IF acc.panicked THEN Panic("check")
             ELSE IF acc.done THEN Ok(acc.ret)
             ELSE Ok(acc.best),
     log |-> acc.log]

\* One evaluation of a rule: where the rule stands in its technology, the
\* signal it was run against and what came out.
Event(ctx, idx, inp, out) ==
    [tech |-> ctx.tech, cat |-> ctx.cat, key |-> ctx.key, idx |-> idx,
     signal |-> ctx.signal, input |-> inp, out |-> out]

Ctx(tech, cat, key, signal) ==
    [tech |-> tech, cat |-> cat, key |-> key, signal |-> signal]

\* <Tagged<Regex> as WappTechCheck<&HeaderValue>>::check: a header value
\* is [visible, text]; to_str() fails on one that is not visible ASCII.
TaggedHeaderCheck(rule, value) ==
    IF ~value.visible THEN Ok(None) ELSE TaggedRegexCheck(rule, value.text)

\* The accumulator with one more evaluation on its log.
Logged(acc, event) == [acc EXCEPT !.log = Append(@, event)]

\* pat.check(input) for the two input types of a Tagged<Regex>.
PatCheck(mode, rule, inp) ==
    IF mode = "header" THEN TaggedHeaderCheck(rule, inp)
    ELSE TaggedRegexCheck(rule, inp)

\* The loop of <Vec<P> as WappTechCheck<T>>::check, P = Tagged<Regex>.
RECURSIVE VecLoop(_, _, _, _, _, _)
VecLoop(rules, i, inp, mode, ctx, acc) ==
    IF i > Len(rules) \/ acc.done THEN acc
    ELSE Let(PatCheck(mode, rules[i], inp), LAMBDA r :
           VecLoop(rules, i + 1, inp, mode, ctx,
                   HandleCheckResult(Logged(acc, Event(ctx, i, inp, r)), r)))

\* <Vec<P> as WappTechCheck<T>>::check, P = Tagged<Regex>.
VecCheck(rules, inp, mode, ctx) ==
    Finish(VecLoop(rules, 1, inp, mode, ctx, NewAcc))

\* A nested outcome below 100 replaces the running best whatever its
\* confidence.
HandleNestedReplace(acc, nested) ==
    Let([acc EXCEPT !.log = @ \o nested.log], LAMBDA logged :
      IF nested.res.tag = "Ok" /\ IsSome(nested.res.value)
         /\ nested.res.value[1].confidence < 100
      THEN [logged EXCEPT !.best = nested.res.value]
      ELSE HandleCheckResult(logged, nested.res))

\* handle_check_result! around a nested check, whose evaluations join the
\* log.
HandleNested(acc, nested) ==
    HandleCheckResult([acc EXCEPT !.log = @ \o nested.log], nested.res)

-----------------------------------------------------------------------------
(* The keyed categories and the DOM.                                       *)

\* u8::to_ascii_lowercase over the names of the model.
Lower(w) ==
    CASE w = "Server" -> "server"
      [] w = "SERVER" -> "server"
      [] OTHER        -> w

\* Cookie names compared like header names.
KeyMatchIgnoreCase(mode, patKey, name) == Lower(patKey) = Lower(name)

\* str::eq_ignore_ascii_case for header names, == for cookie names.
KeyMatch(mode, patKey, name) ==
    IF mode = "header" THEN Lower(patKey) = Lower(name) ELSE patKey = name

\* The loops of the headers and the cookies check: for every entry of the
\* page, every declared (key, rules) whose key matches.
RECURSIVE KeyedLoop(_, _, _, _, _, _, _)
KeyedLoop(entries, pats, h, k, mode, ctx, acc) ==
    IF acc.done \/ h > Len(entries) THEN acc
    ELSE IF k > Len(pats) THEN KeyedLoop(entries, pats, h + 1, 1, mode, ctx, acc)
    ELSE IF KeyMatch(mode, pats[k][1], entries[h][1])
    THEN KeyedLoop(entries, pats, h, k + 1, mode, ctx,
                   HandleNested(acc, VecCheck(pats[k][2], entries[h][2], mode,
                                              [ctx EXCEPT !.key = pats[k][1]])))
    ELSE KeyedLoop(entries, pats, h, k + 1, mode, ctx, acc)

\* <Vec<(String, Vec<Tagged<Regex>>)> as WappTechCheck<&HeaderMap>>::check.
HeadersCheck(pats, headers, ctx) ==
    Finish(KeyedLoop(headers, pats, 1, 1, "header", ctx, NewAcc))

\* <Vec<(String, Vec<Tagged<Regex>>)> as WappTechCheck<&[Cookie]>>::check.
CookiesCheck(pats, cookies, ctx) ==
    Finish(KeyedLoop(cookies, pats, 1, 1, "str", ctx, NewAcc))

\* Html::select: the elements the selector matches, in document order.
Select(html, selector) ==
    LET Matches(el) == <<el.name>> = selector
    IN  SelectSeq(html, Matches)

\* ElementRef::attr: the value of the attribute, if the element has it.
ElAttr(el, name) ==
    IF \E i \in 1..Len(el.attrs) : el.attrs[i][1] = name
    THEN Some(el.attrs[CHOOSE i \in 1..Len(el.attrs) :
                          /\ el.attrs[i][1] = name
                          /\ \A j \in 1..(i - 1) : el.attrs[j][1] /= name][2])
    ELSE None

\* The loops of the DOM check over the selected elements: per element the
\* exists rule (a = 0), then the attribute rules.
RECURSIVE DomLoop(_, _, _, _, _, _)
DomLoop(pat, els, e, a, ctx, acc) ==
    IF acc.done \/ e > Len(els) THEN acc
    ELSE IF a = 0
    THEN Let(TaggedUnitCheck(pat.exists), LAMBDA r :
           DomLoop(pat, els, e, 1, ctx,
                   HandleCheckResult(
                       Logged(acc, Event([ctx EXCEPT !.key = "exists"], e, <<>>, r)),
                       r)))
    ELSE IF a > Len(pat.attributes) THEN DomLoop(pat, els, e + 1, 0, ctx, acc)
    ELSE Let(ElAttr(els[e], pat.attributes[a][1]), LAMBDA v :
           IF v = None THEN DomLoop(pat, els, e, a + 1, ctx, acc)
           ELSE DomLoop(pat, els, e, a + 1, ctx,
                        HandleNested(acc,
                            VecCheck(pat.attributes[a][2], v[1], "str",
                                     [ctx EXCEPT !.key = pat.attributes[a][1]]))))

\* <WappTechDomPatttern as WappTechCheck<&Html>>::check.
DomPatternCheck(pat, html, ctx) ==
    Finish(DomLoop(pat, Select(html, pat.selector), 1, 0, ctx, NewAcc))

\* <Vec<P> as WappTechCheck<T>>::check, P = WappTechDomPatttern.
RECURSIVE VecDomLoop(_, _, _, _, _)
VecDomLoop(pats, i, html, ctx, acc) ==
    IF i > Len(pats) \/ acc.done THEN acc
    ELSE VecDomLoop(pats, i + 1, html, ctx,
                    HandleNested(acc, DomPatternCheck(pats[i], html, ctx)))

VecDomCheck(pats, html, ctx) == Finish(VecDomLoop(pats, 1, html, ctx, NewAcc))

-----------------------------------------------------------------------------
(* The signal dispatcher.                                                  *)

\* Every category a technology declares rules for (WappTech, mod.rs).
Categories ==
    <<"url", "headers", "cookies", "dom", "html", "text", "script_src",
      "scripts", "meta">>

\* The blocks with the html and the text rules fed each other's signal.
BlocksSwapped ==
    << <<"url", "url">>, <<"headers", "headers">>, <<"cookies", "cookies">>,
       <<"dom", "dom">>, <<"html", "text">>, <<"text", "html">> >>

\* The blocks of WappTech::check in order: the field of the technology
\* whose rules run, and the accessor of the page that feeds them.
Blocks ==
    << <<"url", "url">>, <<"headers", "headers">>, <<"cookies", "cookies">>,
       <<"dom", "dom">>, <<"html", "html">>, <<"text", "text">> >>

\* WappPage::url, headers, html, text, and the cookies and dom the gated
\* blocks of WappTech::check ask the page for: Some when the page has the
\* capability.
PageGet(p, accessor) == p[accessor]

\* check_url, check_headers, check_cookies, check_dom, check_html,
\* check_text: the check of one field of the technology.
CheckField(tech, field, value, ctx) ==
    CASE field = "headers" -> HeadersCheck(tech.headers, value, ctx)
      [] field = "cookies" -> CookiesCheck(tech.cookies, value, ctx)
      [] field = "dom"     -> VecDomCheck(tech.dom, value, ctx)
      [] OTHER             -> VecCheck(tech[field], value, "str", ctx)

RECURSIVE TechLoop(_, _, _, _, _)
TechLoop(tech, p, blocks, b, acc) ==
    IF b > Len(blocks) \/ acc.done THEN acc
    ELSE Let(PageGet(p, blocks[b][2]), LAMBDA signal :
           IF signal = None THEN TechLoop(tech, p, blocks, b + 1, acc)
           ELSE TechLoop(tech, p, blocks, b + 1,
                  HandleNested(acc,
                      CheckField(tech, blocks[b][1], signal[1],
                                 Ctx(tech.name, blocks[b][1], "", blocks[b][2])))))

\* WappTech::check.
TechCheck(tech, p) == Finish(TechLoop(tech, p, Blocks, 1, NewAcc))

\* WappAnalyzer::check: the technologies in the order the map yields them.
RECURSIVE AnalyzerLoop(_, _, _, _, _)
AnalyzerLoop(ts, order, i, p, st) ==
    IF i > Len(order) \/ st.panicked THEN st
    ELSE Let(TechCheck(ts[order[i]], p), LAMBDA r :
           IF r.res.tag = "Panic"
           THEN [st EXCEPT !.panicked = TRUE, !.log = @ \o r.log]
           ELSE IF r.res.value = None
           THEN AnalyzerLoop(ts, order, i + 1, p, [st EXCEPT !.log = @ \o r.log])
           ELSE AnalyzerLoop(ts, order, i + 1, p,
                  [st EXCEPT !.log = @ \o r.log,
                             !.result = Append(@,
                                 [tech_name  |-> ts[order[i]].name,
                                  confidence |-> r.res.value[1].confidence,
                                  version    |-> r.res.value[1].version])]))

AnalyzerCheck(ts, order, p) ==
    AnalyzerLoop(ts, order, 1, p, [result |-> <<>>, panicked |-> FALSE, log |-> <<>>])

-----------------------------------------------------------------------------
(* The loader.  A serde_json::Value is a record tagged "str", "num", "arr" *)
(* or "obj" (an object is the sequence of its entries in the order the map *)
(* yields them); Option<Value> is None or Some of it.                      *)

JStr(s) == [t |-> "str", s |-> s]

JNum(n) == [t |-> "num", n |-> n]

JArr(a) == [t |-> "arr", a |-> a]

JObj(o) == [t |-> "obj", o |-> o]

\* The closure of to_pattern_vec (k = "pattern") and to_tagged_string_vec
\* (k = "string"): a string is compiled, anything else is an error.
ParseValue(x, k) ==
    IF x.t = "str" THEN TaggedParse(x.s, k)
    ELSE Err([kind |-> "ExpectString", key |-> <<>>])

\* a.into_iter().map(f).filter_map(|x| x.ok()).collect() of to_vec.
RECURSIVE CollectOk(_, _, _, _)
CollectOk(a, i, k, acc) ==
    IF i > Len(a) THEN Ok(acc)
    ELSE Let(ParseValue(a[i], k), LAMBDA r :
           IF r.tag = "Panic" THEN r
           ELSE IF r.tag = "Ok" THEN CollectOk(a, i + 1, k, Append(acc, r.value))
           ELSE CollectOk(a, i + 1, k, acc))

\* vec![x] for Ok(x) and Vec::new() for an error; a panic stays one.
OneOrNone(r) ==
    IF r.tag = "Panic" THEN r
    ELSE IF r.tag = "Ok" THEN Ok(<<r.value>>)
    ELSE Ok(<<>>)

\* to_vec with the closure of to_pattern_vec or to_tagged_string_vec.
ToVec(value, k) ==
    IF value = None THEN Ok(<<>>)
    ELSE IF value[1].t = "arr" THEN CollectOk(value[1].a, 1, k, <<>>)
    ELSE OneOrNone(ParseValue(value[1], k))

ToPatternVec(value) == ToVec(value, "pattern")

ToTaggedStringVec(value) == ToVec(value, "string")

RECURSIVE MapEntries(_, _, _)
MapEntries(o, i, acc) ==
    IF i > Len(o) THEN Ok(acc)
    ELSE Let(ToPatternVec(Some(o[i][2])), LAMBDA r :
           IF r.tag = "Panic" THEN r
           ELSE MapEntries(o, i + 1, Append(acc, <<o[i][1], r.value>>)))

\* to_pattern_map.
ToPatternMap(value) ==
    IF value = None THEN Ok(<<>>)
    ELSE IF value[1].t = "obj" THEN MapEntries(value[1].o, 1, <<>>)
    ELSE Err([kind |-> "ExpectObject", key |-> <<>>])

\* The selectors of an array handed to WappTechDomPatttern::from_json.
RECURSIVE DomFromArray(_, _, _)
DomFromArray(a, i, acc) ==
    IF i > Len(a) THEN Ok(acc)
    ELSE IF a[i].t /= "str" THEN DomFromArray(a, i + 1, acc)
    ELSE Let(FromSelector(a[i].s), LAMBDA r :
           IF r.tag = "Panic" THEN r
           ELSE IF r.tag = "Ok" THEN DomFromArray(a, i + 1, Append(acc, r.value))
           ELSE DomFromArray(a, i + 1, acc))

\* The entries of one selector's description in from_json.
RECURSIVE DomDescription(_, _, _)
DomDescription(d, i, pat) ==
    IF i > Len(d) THEN Ok(pat)
    ELSE CASE d[i][1] = "exists" ->
                IF d[i][2].t /= "str" THEN DomDescription(d, i + 1, pat)
                ELSE Let(TaggedParse(d[i][2].s, "exists"), LAMBDA r :
                       IF r.tag = "Panic" THEN r
                       ELSE IF r.tag = "Ok"
                       THEN DomDescription(d, i + 1, [pat EXCEPT !.exists = r.value])
                       ELSE DomDescription(d, i + 1, pat))
           [] d[i][1] = "text" ->
                IF d[i][2].t /= "str"
                THEN DomDescription(d, i + 1, [pat EXCEPT !.text = None])
                ELSE Let(TaggedParse(d[i][2].s, "pattern"), LAMBDA r :
                       IF r.tag = "Panic" THEN r
                       ELSE DomDescription(d, i + 1,
                              [pat EXCEPT !.text = IF r.tag = "Ok"
                                                   THEN Some(r.value)
                                                   ELSE None]))
           [] d[i][1] \in {"attributes", "properties"} ->
                Let(ToPatternMap(Some(d[i][2])), LAMBDA r :
                  IF r.tag = "Panic" THEN r
                  ELSE IF r.tag = "Ok"
                  THEN DomDescription(d, i + 1,
                         [pat EXCEPT !.attributes = @ \o r.value])
                  ELSE DomDescription(d, i + 1, pat))
           [] d[i][1] = "src" -> DomDescription(d, i + 1, pat)
           [] OTHER -> Panic("dom key")

\* The (selector, description) entries of an object handed to from_json.
RECURSIVE DomFromObject(_, _, _)
DomFromObject(o, i, acc) ==
    IF i > Len(o) THEN Ok(acc)
    ELSE Let(FromSelector(o[i][1]), LAMBDA r :
           IF r.tag = "Panic" THEN r
           ELSE IF r.tag = "Err" \/ o[i][2].t /= "obj"
           THEN DomFromObject(o, i + 1, acc)
           ELSE Let(DomDescription(o[i][2].o, 1, r.value), LAMBDA p :
                  IF p.tag = "Panic" THEN p
                  ELSE DomFromObject(o, i + 1, Append(acc, p.value))))

\* item.dom.map(WappTechDomPatttern::from_json).unwrap_or_default().
DomFromJson(value) ==
    IF value = None THEN Ok(<<>>)
    ELSE CASE value[1].t = "str" -> OneOrNone(FromSelector(value[1].s))
           [] value[1].t = "arr" -> DomFromArray(value[1].a, 1, <<>>)
           [] value[1].t = "obj" -> DomFromObject(value[1].o, 1, <<>>)
           [] OTHER -> Panic("dom value")

\* The fields of a technology that hold rules, in the order the struct
\* literal of load_from_bytes evaluates them.
LoadOrder ==
    <<"implies", "cookies", "dom", "headers", "html", "text", "url", "meta",
      "script_src", "scripts">>

LoadField(field, value) ==
    CASE field = "implies" -> ToTaggedStringVec(value)
      [] field \in {"cookies", "headers", "meta"} -> ToPatternMap(value)
      [] field = "dom" -> DomFromJson(value)
      [] OTHER -> ToPatternVec(value)

\* One technology of WappTech::load_from_bytes: the first field that
\* panics or (to_pattern_map(..)?) fails ends the load.
RECURSIVE LoadTech(_, _, _)
LoadTech(raw, i, tech) ==
    IF i > Len(LoadOrder) THEN Ok(tech)
    ELSE Let(LoadField(LoadOrder[i], raw[LoadOrder[i]]), LAMBDA r :
           IF r.tag /= "Ok" THEN r
           ELSE LoadTech(raw, i + 1, [tech EXCEPT ![LoadOrder[i]] = r.value]))

EmptyTech(name) ==
    [name |-> name, implies |-> <<>>, cookies |-> <<>>, dom |-> <<>>,
     headers |-> <<>>, html |-> <<>>, text |-> <<>>, url |-> <<>>,
     meta |-> <<>>, script_src |-> <<>>, scripts |-> <<>>]

\* WappTech::load_from_bytes over the (name, item) entries of the data,
\* as WappAnalyzer::from_bytes collects them.
RECURSIVE LoadFromBytes(_, _, _)
LoadFromBytes(data, i, acc) ==
    IF i > Len(data) THEN Ok(acc)
    ELSE Let(LoadTech(data[i][2], 1, EmptyTech(data[i][1])), LAMBDA r :
           IF r.tag /= "Ok" THEN r
           ELSE LoadFromBytes(data, i + 1,
                  [n \in DOMAIN acc \cup {data[i][1]} |->
                      IF n = data[i][1] THEN r.value ELSE acc[n]]))

-----------------------------------------------------------------------------
(* Bounds and the inputs drawn within them.                                *)

\* Directive segments appended to one authored string.
MaxDirectives == 2

\* Rules declared by the technology under analysis.
MaxRules == 2

\* Rules in the list a single category check runs.
MaxLen == 3

\* Every sequence over S of length at most n.
RECURSIVE SeqsUpTo(_, _)
SeqsUpTo(S, n) ==
    IF n = 0 THEN {<<>>}
    ELSE LET shorter == SeqsUpTo(S, n - 1)
         IN  shorter \cup {Append(q, x) : q \in {r \in shorter : Len(r) = n - 1}, x \in S}

\* An authored string: the content, then each directive after a delimiter.
RECURSIVE Join(_, _)
Join(content, ds) ==
    IF ds = <<>> THEN content
    ELSE Join(content \o <<BS, ";">> \o Head(ds), Tail(ds))

Contents ==
    { <<"foo">>,
      <<"(", "foo", ")", "?", "bar">>,
      <<>>,
      <<"(", "foo">> }

DirectivePool ==
    { <<"confidence", ":", "8", "0">>,
      <<"confidence", ":", "0">>,
      <<"confidence", ":", "1", "5", "0">>,
      <<"confidence", ":", "-", "5">>,
      <<"confidence", ":", "high">>,
      <<"version", ":", BS, "1">>,
      <<"version", ":", BS, "2">>,
      <<"version", ":", "v1">>,
      <<"version", ":", BS, "1", "?", BS, "1", ":", "legacy">>,
      <<"version", ":", BS, "1", "?", ":", BS, "2">>,
      <<"version", ":">>,
      <<"version", ":", "v", BS, "1">>,
      <<"version", ":", "v1", "?", BS, "1", ":", BS, "2">>,
      <<"foo", ":", "1">>,
      <<"bar", ":", "2">>,
      <<"confidence">>,
      <<>> }

AuthoredStrings ==
    {Join(c, ds) : c \in Contents, ds \in SeqsUpTo(DirectivePool, MaxDirectives)}

\* The texts a compiled pattern is run against.
Inputs == { <<"foo", "bar">>, <<"bar">>, <<"baz">> }

-----------------------------------------------------------------------------
(* SpecRule: one authored string is compiled, and the rule it gives is     *)
(* evaluated.                                                              *)

Caps == {Categories[i] : i \in 1..Len(Categories)}

\* A page with no capability: every accessor of WappPage at its default.
NoPage == [c \in Caps |-> None]

NotYet == [tag |-> "NotYet"]

InitRule ==
    /\ authored \in AuthoredStrings
    /\ kind = "none"
    /\ parsed = NotYet
    /\ input = <<>>
    /\ outcome = NotYet
    /\ techs = <<>>
    /\ page = NoPage
    /\ results = <<>>
    /\ evaluated = <<>>
    /\ pc = "authored"

\* to_pattern_vec, to_tagged_string_vec and the "exists" entry of a DOM
\* description compile the string with Tagged::parse.
ParseRule(k) ==
    /\ pc = "authored"
    /\ k \in {"pattern", "string", "exists"}
    /\ kind' = k
    /\ parsed' = TaggedParse(authored, k)
    /\ pc' = "parsed"
    /\ UNCHANGED <<authored, input, outcome, techs, page, results, evaluated>>

\* The exists rule of a compiled DOM pattern.
ExistsOf(r) == IF r.tag = "Ok" THEN Ok(r.value.exists) ELSE r

\* A selector of the dom field is compiled by from_selector; the rule it
\* gives is the exists rule of the pattern.
ParseSelector ==
    /\ pc = "authored"
    /\ kind' = "selector"
    /\ parsed' = ExistsOf(FromSelector(authored))
    /\ pc' = "parsed"
    /\ UNCHANGED <<authored, input, outcome, techs, page, results, evaluated>>

\* A compiled pattern is run against a text.
CheckStr(inp) ==
    /\ pc = "parsed"
    /\ kind = "pattern"
    /\ parsed.tag = "Ok"
    /\ input' = inp
    /\ outcome' = TaggedRegexCheck(parsed.value, inp)
    /\ pc' = "evaluated"
    /\ UNCHANGED <<authored, kind, parsed, techs, page, results, evaluated>>

\* An exists rule is run for a matched element.
CheckUnit ==
    /\ pc = "parsed"
    /\ kind \in {"selector", "exists"}
    /\ parsed.tag = "Ok"
    /\ outcome' = TaggedUnitCheck(parsed.value)
    /\ pc' = "evaluated"
    /\ UNCHANGED <<authored, kind, parsed, input, techs, page, results, evaluated>>

NextRule ==
    \/ \E k \in Kinds : ParseRule(k)
    \/ ParseSelector
    \/ \E inp \in Inputs : CheckStr(inp)
    \/ CheckUnit

SpecRule == InitRule /\ [][NextRule]_vars

-----------------------------------------------------------------------------
(* SpecAgg: a technology declares one list of rules in one category and,   *)
(* unless that category is text, a last rule in text; it is loaded, then   *)
(* checked against a page on which every signal is present.                *)

\* The rules a list is drawn from: bar at several confidences (at 70 also
\* with a version), and baz, which the page does not match.
ListPool ==
    { Join(<<"bar">>, << <<"confidence", ":", "0">> >>),
      Join(<<"bar">>, << <<"confidence", ":", "3", "0">> >>),
      Join(<<"bar">>, << <<"confidence", ":", "4", "0">> >>),
      Join(<<"bar">>, << <<"confidence", ":", "7", "0">> >>),
      Join(<<"bar">>, << <<"confidence", ":", "7", "0">>,
                         <<"version", ":", "v1">> >>),
      Join(<<"bar">>, << <<"confidence", ":", "9", "0">> >>),
      <<"bar">>,
      Join(<<"bar">>, << <<"confidence", ":", "1", "5", "0">> >>),
      <<"baz">> }

ListCats == {"url", "headers", "cookies", "dom", "html", "text"}

\* An item of the data that declares nothing.
NoItem == [f \in {LoadOrder[i] : i \in 1..Len(LoadOrder)} |-> None]

\* The JSON array of a list of authored strings.
StrArr(list) == JArr([i \in 1..Len(list) |-> JStr(list[i])])

\* The value of the field cat that declares the list: an array, or for a
\* keyed category the array under one key, or for dom the array under one
\* attribute of a selector of confidence 20.
ListValue(cat, list) ==
    CASE cat = "headers" -> JObj(<< <<"Server", StrArr(list)>> >>)
      [] cat = "cookies" -> JObj(<< <<"sid", StrArr(list)>> >>)
      [] cat = "dom" ->
           JObj(<< << Join(<<"div">>, << <<"confidence", ":", "2", "0">> >>),
                      JObj(<< <<"attributes",
                                JObj(<< <<"class", StrArr(list)>> >>)>> >>) >> >>)
      [] OTHER -> StrArr(list)

LastTextRule == Join(<<"bar">>, << <<"confidence", ":", "6", "0">> >>)

\* The item of the technology: the last rule in text, and the list in its
\* category (in place of the last rule when that category is text).
ListItem(cat, list) ==
    [NoItem EXCEPT !["text"] = Some(JStr(LastTextRule)),
                   ![cat] = Some(ListValue(cat, list))]

\* A page on which every signal is present and holds bar.
FullPage ==
    [url        |-> Some(<<"bar">>),
     headers    |-> Some(<< <<"server", [visible |-> TRUE, text |-> <<"bar">>]>> >>),
     cookies    |-> Some(<< <<"sid", <<"bar">>>> >>),
     dom        |-> Some(<< [name |-> "div",
                             attrs |-> << <<"class", <<"bar">>>> >>,
                             text |-> <<"bar">>] >>),
     html       |-> Some(<<"foo", "bar">>),
     text       |-> Some(<<"bar">>),
     script_src |-> Some(<<"bar">>),
     scripts    |-> Some(<<"bar">>),
     meta       |-> Some(<< <<"generator", <<"bar">>>> >>)]

InitAgg ==
    /\ authored \in SeqsUpTo(ListPool, MaxLen)
    /\ kind \in ListCats
    /\ parsed = NotYet
    /\ input = <<>>
    /\ outcome = NotYet
    /\ techs = <<>>
    /\ page = NoPage
    /\ results = <<>>
    /\ evaluated = <<>>
    /\ pc = "declared"

\* WappAnalyzer::from_bytes on data that declares the one technology.
LoadList ==
    /\ pc = "declared"
    /\ parsed' = LoadFromBytes(<< <<"A", ListItem(kind, authored)>> >>, 1, <<>>)
    /\ techs' = IF parsed'.tag = "Ok" THEN parsed'.value ELSE techs
    /\ pc' = IF parsed'.tag = "Ok" THEN "loaded" ELSE "load_failed"
    /\ UNCHANGED <<authored, kind, input, outcome, page, results, evaluated>>

\* WappTech::check of the technology against the page.
CheckTech(p) ==
    /\ pc = "loaded"
    /\ page' = p
    /\ Let(TechCheck(techs["A"], p), LAMBDA r :
         /\ outcome' = r.res
         /\ evaluated' = r.log)
    /\ pc' = "checked"
    /\ UNCHANGED <<authored, kind, parsed, input, techs, results>>

NextAgg ==
    \/ LoadList
    \/ CheckTech(FullPage)

SpecAgg == InitAgg /\ [][NextAgg]_vars

-----------------------------------------------------------------------------
(* Spec: the analyzer is built from data that declares two technologies,   *)
(* then checks a page.                                                     *)

Decl(cat, s) == [cat |-> cat, s |-> s]

\* The rules technology A draws its declarations from.
DeclPool ==
    { Decl("url", <<"foo">>),
      Decl("url", Join(<<"foo">>, << <<"confidence", ":", "4", "0">>,
                                     <<"version", ":", "v1">> >>)),
      Decl("url", Join(<<"foo">>, << <<"confidence">> >>)),
      Decl("url", <<"(", "foo">>),
      Decl("headers", Join(<<"foo">>, << <<"confidence", ":", "5", "0">> >>)),
      Decl("cookies", Join(<<"foo">>, << <<"confidence", ":", "6", "0">> >>)),
      Decl("dom", Join(<<"div">>, << <<"confidence", ":", "7", "0">> >>)),
      Decl("dom", Join(<<"div">>, << <<"version", ":", BS, "1">> >>)),
      Decl("html", Join(<<"foo">>, << <<"confidence", ":", "0">> >>)),
      Decl("html", <<"baz">>),
      Decl("text", Join(<<"bar">>, << <<"confidence", ":", "3", "0">> >>)),
      Decl("text", Join(<<"(", "foo", ")", "?", "bar">>,
                        << <<"version", ":", BS, "1">> >>)),
      Decl("script_src", <<"foo">>),
      Decl("scripts", Join(<<"foo">>, << <<"confidence", ":", "8", "0">> >>)),
      Decl("meta", <<"foo">>) }

\* The key the rules of a keyed category are declared under.
KeyOfCat(cat) ==
    CASE cat = "headers" -> "Server"
      [] cat = "cookies" -> "sid"
      [] cat = "meta"    -> "generator"

\* The authored strings of the declarations in category cat, in order.
StringsOf(decls, cat) ==
    LET InCat(d) == d.cat = cat
        ds == SelectSeq(decls, InCat)
    IN  [i \in 1..Len(ds) |-> ds[i].s]

\* The item of a technology that declares decls.
ItemOf(decls) ==
    [f \in DOMAIN NoItem |->
        IF StringsOf(decls, f) = <<>> THEN None
        ELSE IF f \in {"headers", "cookies", "meta"}
        THEN Some(JObj(<< <<KeyOfCat(f), StrArr(StringsOf(decls, f))>> >>))
        ELSE Some(StrArr(StringsOf(decls, f)))]

\* Technology B declares one text rule.
ItemB == ItemOf(<<Decl("text", Join(<<"bar">>, << <<"confidence", ":", "5", "0">> >>))>>)

DataOf(decls) == << <<"A", ItemOf(decls)>>, <<"B", ItemB>> >>

\* The signals of a page, by capability.
Signals ==
    [url        |-> <<"foo">>,
     headers    |-> << <<"server", [visible |-> TRUE, text |-> <<"foo">>]>> >>,
     cookies    |-> << <<"sid", <<"foo">>>> >>,
     dom        |-> << [name |-> "div", attrs |-> <<>>, text |-> <<"foo">>] >>,
     html       |-> <<"foo", "bar">>,
     text       |-> <<"bar">>,
     script_src |-> <<"foo">>,
     scripts    |-> <<"foo">>,
     meta       |-> << <<"generator", <<"foo">>>> >>]

PageWith(caps) == [c \in Caps |-> IF c \in caps THEN Some(Signals[c]) ELSE None]

\* A page with no capability, with one, or with all.
Pages == {PageWith({})} \cup {PageWith({c}) : c \in Caps} \cup {PageWith(Caps)}

\* The names of the technologies the data declares.
TechNames == {"A", "B"}

\* The orders in which HashMap::values can yield the technologies.
Orders(ts) ==
    {o \in SeqsUpTo(DOMAIN ts, Cardinality(DOMAIN ts)) :
        /\ Len(o) = Cardinality(DOMAIN ts)
        /\ \A i, j \in 1..Len(o) : i /= j => o[i] /= o[j]}

\* WappAnalyzer::new_empty.
Init ==
    /\ authored = <<>>
    /\ kind = "none"
    /\ parsed = NotYet
    /\ input = <<>>
    /\ outcome = NotYet
    /\ techs = <<>>
    /\ page = NoPage
    /\ results = <<>>
    /\ evaluated = <<>>
    /\ pc = "empty"

\* WappAnalyzer::from_bytes on the data of the declarations.
Load(decls) ==
    /\ pc = "empty"
    /\ authored' = decls
    /\ parsed' = LoadFromBytes(DataOf(decls), 1, <<>>)
    /\ techs' = IF parsed'.tag = "Ok" THEN parsed'.value ELSE techs
    /\ pc' = CASE parsed'.tag = "Ok"  -> "loaded"
               [] parsed'.tag = "Err" -> "load_failed"
               [] OTHER               -> "load_panicked"
    /\ UNCHANGED <<kind, input, outcome, page, results, evaluated>>

\* WappAnalyzer::check of a page.
Check(p, order) ==
    /\ pc = "loaded"
    /\ order \in Orders(techs)
    /\ page' = p
    /\ Let(AnalyzerCheck(techs, order, p), LAMBDA r :
         /\ results' = r.result
         /\ evaluated' = r.log
         /\ pc' = IF r.panicked THEN "check_panicked" ELSE "checked")
    /\ UNCHANGED <<authored, kind, parsed, input, outcome, techs>>

Next ==
    \/ \E decls \in SeqsUpTo(DeclPool, MaxRules) : Load(decls)
    \/ \E p \in Pages, order \in SeqsUpTo(TechNames, 2) : Check(p, order)

Spec == Init /\ [][Next]_vars

-----------------------------------------------------------------------------
(* SpecLoad: a technology declares one collection of rules in one field,   *)
(* some of them with authoring errors; the data is loaded.                 *)

\* The JSON values a collection is drawn from: two valid rules, and one
\* for each kind of authoring error.
LoadPool ==
    { JStr(<<"foo">>),
      JStr(Join(<<"bar">>, << <<"confidence", ":", "5", "0">>,
                              <<"version", ":", "v1">> >>)),
      JStr(Join(<<"foo">>, << <<"confidence">> >>)),
      JStr(Join(<<"foo">>, << <<"foo", ":", "1">> >>)),
      JStr(Join(<<"foo">>, << <<"confidence", ":", "high">> >>)),
      JStr(Join(<<"foo">>, << <<"version", ":", "v", BS, "1">> >>)),
      JStr(Join(<<"foo">>, << <<"version", ":", "v1", "?", BS, "1", ":", BS, "2">> >>)),
      JStr(Join(<<"foo">>, << <<"version", ":">> >>)),
      JStr(<<"(", "foo">>),
      JNum(1) }

LoadFields == {"implies", "url", "headers", "dom"}

\* The value of the field that declares the collection: an array, under
\* one key for headers.
CollectionValue(field, list) ==
    IF field = "headers" THEN JObj(<< <<"Server", JArr(list)>> >>)
    ELSE JArr(list)

InitLoad ==
    /\ authored \in SeqsUpTo(LoadPool, MaxRules)
    /\ kind \in LoadFields
    /\ parsed = NotYet
    /\ input = <<>>
    /\ outcome = NotYet
    /\ techs = <<>>
    /\ page = NoPage
    /\ results = <<>>
    /\ evaluated = <<>>
    /\ pc = "collected"

\* WappAnalyzer::from_bytes on data that declares the one technology.
LoadRules ==
    /\ pc = "collected"
    /\ parsed' = LoadFromBytes(
                    << <<"A", [NoItem EXCEPT ![kind] =
                                  Some(CollectionValue(kind, authored))]>> >>,
                    1, <<>>)
    /\ techs' = IF parsed'.tag = "Ok" THEN parsed'.value ELSE techs
    /\ pc' = CASE parsed'.tag = "Ok"  -> "loaded"
               [] parsed'.tag = "Err" -> "load_failed"
               [] OTHER               -> "load_panicked"
    /\ UNCHANGED <<authored, kind, input, outcome, page, results, evaluated>>

NextLoad == LoadRules

SpecLoad == InitLoad /\ [][NextLoad]_vars

-----------------------------------------------------------------------------
(* SpecVersion: a version expression is compiled, as a value or as a       *)
(* pattern.                                                                *)

\* Tokens of the expressions that are enumerated in full.
MaxTokens == 4

VersionTokens == {BS, "1", "?", ":", "v", "\n", "U+0663"}

\* Backreferences around the limits of the integer types: a leading zero,
\* 2^31, usize::MAX and usize::MAX + 1.
LongExprs ==
    { <<BS, "0", "7">>,
      <<BS, "2", "1", "4", "7", "4", "8", "3", "6", "4", "8">>,
      <<BS>> \o UsizeMaxDigits,
      <<BS>> \o [UsizeMaxDigits EXCEPT ![Len(UsizeMaxDigits)] = "6"] }

VersionExprs == SeqsUpTo(VersionTokens, MaxTokens) \cup LongExprs

InitVersion ==
    /\ authored \in VersionExprs
    /\ kind = "none"
    /\ parsed = NotYet
    /\ input = <<>>
    /\ outcome = NotYet
    /\ techs = <<>>
    /\ page = NoPage
    /\ results = <<>>
    /\ evaluated = <<>>
    /\ pc = "authored"

\* WappTechVersionValue::parse of the expression.
ParseVersionValue ==
    /\ pc = "authored"
    /\ kind' = "value"
    /\ parsed' = WappTechVersionValueParse(authored)
    /\ pc' = "parsed"
    /\ UNCHANGED <<authored, input, outcome, techs, page, results, evaluated>>

\* WappTechVersionPattern::parse of the expression.
ParseVersionPattern ==
    /\ pc = "authored"
    /\ kind' = "version"
    /\ parsed' = WappTechVersionPatternParse(authored)
    /\ pc' = "parsed"
    /\ UNCHANGED <<authored, input, outcome, techs, page, results, evaluated>>

NextVersion ==
    \/ ParseVersionValue
    \/ ParseVersionPattern

SpecVersion == InitVersion /\ [][NextVersion]_vars

-----------------------------------------------------------------------------
(* SpecDom: one technology declares one DOM rule group (a selector with    *)
(* rules under the attribute class and possibly a text rule), is loaded,   *)
(* then checked against a document.                                        *)

SelectorPool ==
    { <<"div">>, Join(<<"div">>, << <<"confidence", ":", "2", "0">> >>) }

AttrRulePool ==
    { Join(<<"bar">>, << <<"confidence", ":", "3", "0">> >>),
      Join(<<"bar">>, << <<"confidence", ":", "7", "0">> >>),
      <<"bar">>,
      <<"baz">> }

TextRulePool ==
    { Join(<<"bar">>, << <<"confidence", ":", "5", "0">> >>),
      Join(<<"bar">>, << <<"confidence", ":", "5", "0">>,
                         <<"version", ":", "v", "1">> >>),
      <<"bar">>,
      <<"baz">> }

\* The groups the data may declare: text is None or Some rule.
DomGroups ==
    [sel : SelectorPool, attrs : SeqsUpTo(AttrRulePool, MaxRules),
     text : {None} \cup {Some(t) : t \in TextRulePool}]

\* The value of the field dom that declares the group.
DomValue(g) ==
    JObj(<< << g.sel,
               JObj(<< <<"attributes", JObj(<< <<"class", StrArr(g.attrs)>> >>)>> >>
                    \o (IF g.text = None THEN <<>>
                        ELSE << <<"text", JStr(g.text[1])>> >>)) >> >>)

Element(name, attrs, text) == [name |-> name, attrs |-> attrs, text |-> text]

DivBar == Element("div", << <<"class", <<"bar">>>> >>, <<"bar">>)

DivPlain == Element("div", <<>>, <<"bar">>)

DivBaz == Element("div", << <<"class", <<"baz">>>> >>, <<"baz">>)

SpanBar == Element("span", << <<"class", <<"bar">>>> >>, <<"bar">>)

\* The documents: the elements in document order.
Documents ==
    { <<DivBar>>, <<DivPlain>>, <<DivBaz>>, <<SpanBar>>,
      <<DivPlain, DivBar>>, <<SpanBar, DivBaz, DivBar>> }

\* A page that has the document and nothing else.
DomPage(doc) == [NoPage EXCEPT !["dom"] = Some(doc)]

InitDom ==
    /\ authored \in DomGroups
    /\ kind = "dom"
    /\ parsed = NotYet
    /\ input = <<>>
    /\ outcome = NotYet
    /\ techs = <<>>
    /\ page = NoPage
    /\ results = <<>>
    /\ evaluated = <<>>
    /\ pc = "declared"

\* WappAnalyzer::from_bytes on data that declares the one technology.
LoadDom ==
    /\ pc = "declared"
    /\ parsed' = LoadFromBytes(
                     << <<"A", [NoItem EXCEPT !["dom"] = Some(DomValue(authored))]>> >>,
                     1, <<>>)
    /\ techs' = IF parsed'.tag = "Ok" THEN parsed'.value ELSE techs
    /\ pc' = IF parsed'.tag = "Ok" THEN "loaded" ELSE "load_failed"
    /\ UNCHANGED <<authored, kind, input, outcome, page, results, evaluated>>

\* WappTech::check of the technology against a page with the document.
CheckDom(doc) ==
    /\ pc = "loaded"
    /\ page' = DomPage(doc)
    /\ Let(TechCheck(techs["A"], page'), LAMBDA r :
         /\ outcome' = r.res
         /\ evaluated' = r.log)
    /\ pc' = "checked"
    /\ UNCHANGED <<authored, kind, parsed, input, techs, results>>

NextDom ==
    \/ LoadDom
    \/ \E doc \in Documents : CheckDom(doc)

SpecDom == InitDom /\ [][NextDom]_vars

-----------------------------------------------------------------------------
(* SpecKeyed: one technology declares rule lists under keys of its headers *)
(* or of its cookies, is loaded, then checked against a page that lists    *)
(* its headers or cookies in some order.                                   *)

MaxKeys == 2

\* The keys the technology may declare.
DeclKeys == {"Server", "server", "via"}

\* The rule lists a key may hold.
KeyedLists ==
    { << Join(<<"bar">>, << <<"version", ":", "v1">> >>) >>,
      << Join(<<"bar">>, << <<"version", ":", "v2">> >>) >>,
      << Join(<<"bar">>, << <<"confidence", ":", "5", "0">> >>),
         Join(<<"bar">>, << <<"version", ":", "v1">> >>) >>,
      << <<"baz">> >> }

\* No name occurs twice among the first components of the entries.
DistinctNames(entries) ==
    \A i, j \in 1..Len(entries) : i /= j => entries[i][1] /= entries[j][1]

\* The (key, list) entries of the declared object, in the order the map
\* yields them; a JSON object holds a key once.
KeyedDecls ==
    {d \in SeqsUpTo(DeclKeys \X KeyedLists, MaxKeys) : DistinctNames(d)}

\* The value of a keyed field that declares the entries.
KeyedValue(d) == JObj([i \in 1..Len(d) |-> <<d[i][1], StrArr(d[i][2])>>])

\* The names of the headers (a HeaderMap holds them in lower case, each
\* once) and of the cookies of a page.
EntryNames(cat) ==
    IF cat = "headers" THEN {"server", "via", "date"} ELSE DeclKeys

\* The value every header or cookie of the pages holds.
EntryValue(cat) ==
    IF cat = "headers" THEN [visible |-> TRUE, text |-> <<"bar">>]
    ELSE <<"bar">>

\* The headers or cookies a page may list, in the order it yields them.
EntryLists(cat) ==
    {[i \in 1..Len(ns) |-> <<ns[i], EntryValue(cat)>>] :
        ns \in {n \in SeqsUpTo(EntryNames(cat), MaxKeys) :
                   cat = "headers" =>
                       \A i, j \in 1..Len(n) : i /= j => n[i] /= n[j]}}

InitKeyed ==
    /\ authored \in KeyedDecls
    /\ kind \in {"headers", "cookies"}
    /\ parsed = NotYet
    /\ input = <<>>
    /\ outcome = NotYet
    /\ techs = <<>>
    /\ page = NoPage
    /\ results = <<>>
    /\ evaluated = <<>>
    /\ pc = "declared"

\* WappAnalyzer::from_bytes on data that declares the one technology.
LoadKeyed ==
    /\ pc = "declared"
    /\ parsed' = LoadFromBytes(
                     << <<"A", [NoItem EXCEPT ![kind] = Some(KeyedValue(authored))]>> >>,
                     1, <<>>)
    /\ techs' = IF parsed'.tag = "Ok" THEN parsed'.value ELSE techs
    /\ pc' = IF parsed'.tag = "Ok" THEN "loaded" ELSE "load_failed"
    /\ UNCHANGED <<authored, kind, input, outcome, page, results, evaluated>>

\* WappTech::check of the technology against a page with the entries.
CheckKeyed(cat, entries) ==
    /\ pc = "loaded"
    /\ kind = cat
    /\ page' = [NoPage EXCEPT ![kind] = Some(entries)]
    /\ Let(TechCheck(techs["A"], page'), LAMBDA r :
         /\ outcome' = r.res
         /\ evaluated' = r.log)
    /\ pc' = "checked"
    /\ UNCHANGED <<authored, kind, parsed, input, techs, results>>

NextKeyed ==
    \/ LoadKeyed
    \/ \E entries \in EntryLists("headers") : CheckKeyed("headers", entries)
    \/ \E entries \in EntryLists("cookies") : CheckKeyed("cookies", entries)

SpecKeyed == InitKeyed /\ [][NextKeyed]_vars

-----------------------------------------------------------------------------
(* SpecNested: one technology declares rules in its url, html and text     *)
(* categories, is loaded, then checked against a page.                     *)

StringCats == <<"url", "html", "text">>

\* The rules of the string categories: foo matches the html of the pages
\* and neither their url nor their text.
NestedRules ==
    { Join(<<"bar">>, << <<"confidence", ":", "0">> >>),
      Join(<<"bar">>, << <<"confidence", ":", "7", "0">> >>),
      Join(<<"bar">>, << <<"confidence", ":", "7", "0">>,
                         <<"version", ":", "v1">> >>),
      <<"foo">> }

NestedDecls ==
    {Decl(StringCats[c], r) : c \in 1..Len(StringCats), r \in NestedRules}

\* The page that exposes the capabilities caps of FullPage.
PageOf(caps) == [c \in Caps |-> IF c \in caps THEN FullPage[c] ELSE None]

NestedPages ==
    { PageOf({"url", "html", "text"}), PageOf({"url", "text"}),
      PageOf({"html"}) }

InitNested ==
    /\ authored \in SeqsUpTo(NestedDecls, MaxLen)
    /\ kind = "nested"
    /\ parsed = NotYet
    /\ input = <<>>
    /\ outcome = NotYet
    /\ techs = <<>>
    /\ page = NoPage
    /\ results = <<>>
    /\ evaluated = <<>>
    /\ pc = "declared"

\* WappAnalyzer::from_bytes on data that declares the one technology.
LoadNested ==
    /\ pc = "declared"
    /\ parsed' = LoadFromBytes(<< <<"A", ItemOf(authored)>> >>, 1, <<>>)
    /\ techs' = IF parsed'.tag = "Ok" THEN parsed'.value ELSE techs
    /\ pc' = IF parsed'.tag = "Ok" THEN "loaded" ELSE "load_failed"
    /\ UNCHANGED <<authored, kind, input, outcome, page, results, evaluated>>

\* WappTech::check of the technology against the page.
CheckNested(p) ==
    /\ pc = "loaded"
    /\ page' = p
    /\ Let(TechCheck(techs["A"], p), LAMBDA r :
         /\ outcome' = r.res
         /\ evaluated' = r.log)
    /\ pc' = "checked"
    /\ UNCHANGED <<authored, kind, parsed, input, techs, results>>

NextNested ==
    \/ LoadNested
    \/ \E p \in NestedPages : CheckNested(p)

SpecNested == InitNested /\ [][NextNested]_vars

-----------------------------------------------------------------------------
(* Properties of the aggregator (SpecAgg).                                 *)

Matched(e) == e.out.tag = "Ok" /\ IsSome(e.out.value)

Terminal(e) == Matched(e) /\ e.out.value[1].confidence >= 100

\* C1: an evaluation whose outcome has confidence >= 100 is the last one
\* of the check, at every level of the fold, and its outcome is what the
\* check returns.
C1_ShortCircuit ==
    pc = "checked" =>
        \A i \in 1..Len(evaluated) :
            Terminal(evaluated[i]) =>
                /\ i = Len(evaluated)
                /\ outcome = Ok(Some(evaluated[i].out.value[1]))

\* Rules of confidence 40, 100 and 90 were declared under a header: the
\* first two were evaluated, the third was not, and the 100 was returned.
C1_Witness ==
    /\ pc = "checked"
    /\ kind = "headers"
    /\ Len(authored) = 3
    /\ authored[1] = Join(<<"bar">>, << <<"confidence", ":", "4", "0">> >>)
    /\ authored[2] = <<"bar">>
    /\ authored[3] = Join(<<"bar">>, << <<"confidence", ":", "9", "0">> >>)
    /\ Len(evaluated) = 2
    /\ evaluated[1].out.value[1].confidence = 40
    /\ evaluated[2].idx = 2
    /\ outcome = Ok(Some(CheckResult(100, None)))

RECURSIVE MaxConfidence(_, _)
MaxConfidence(log, i) ==
    IF i = Len(log) THEN log[i].out.value[1].confidence
    ELSE LET rest == MaxConfidence(log, i + 1)
             here == log[i].out.value[1].confidence
         IN  IF here > rest THEN here ELSE rest

\* What the check of the technology declaring the list returns.
CheckOfList(cat, list, p) ==
    Let(LoadFromBytes(<< <<"A", ListItem(cat, list)>> >>, 1, <<>>), LAMBDA l :
      TechCheck(l.value["A"], p).res)

Reordered(list, f) == [i \in 1..Len(list) |-> list[f[i]]]

\* C2: when every rule evaluated matched with a confidence below 100, the
\* check returns an outcome with the largest of those confidences, and so
\* it does for every reordering of the list.
C2_Monotonic ==
    (/\ pc = "checked"
     /\ evaluated /= <<>>
     /\ \A i \in 1..Len(evaluated) :
            Matched(evaluated[i]) /\ evaluated[i].out.value[1].confidence < 100)
    => /\ outcome.tag = "Ok"
       /\ IsSome(outcome.value)
       /\ outcome.value[1].confidence = MaxConfidence(evaluated, 1)
       /\ \A f \in Permutations(1..Len(authored)) :
              Let(CheckOfList(kind, Reordered(authored, f), page), LAMBDA r :
                /\ r.tag = "Ok"
                /\ IsSome(r.value)
                /\ r.value[1].confidence = outcome.value[1].confidence)

-----------------------------------------------------------------------------
(* Properties of the dispatcher and the analyzer (Spec).                   *)

CatIndex(cat) == CHOOSE i \in 1..Len(Categories) : Categories[i] = cat

\* The results that carry the name of technology t.
ResultsOf(t) == {i \in 1..Len(results) : results[i].tech_name = t}

\* C4: on a page that offers one signal, the rules technology A declares
\* in that category are evaluated, whichever of the nine it is; and the
\* evaluations of a technology follow the order of the categories.
C4_DispatchCoverage ==
    pc = "checked" =>
        /\ \A c \in Caps :
              (page = PageWith({c}) /\ techs["A"][c] /= <<>>)
                  => \E i \in 1..Len(evaluated) :
                        evaluated[i].tech = "A" /\ evaluated[i].cat = c
        /\ \A i, j \in 1..Len(evaluated) :
              (i < j /\ evaluated[i].tech = evaluated[j].tech)
                  => CatIndex(evaluated[i].cat) <= CatIndex(evaluated[j].cat)

\* C5: a technology has exactly one result when one of its evaluated rules
\* matched, and none otherwise.
C5_ResultExistence ==
    pc = "checked" =>
        \A t \in DOMAIN techs :
            IF \E i \in 1..Len(evaluated) :
                   evaluated[i].tech = t /\ Matched(evaluated[i])
            THEN Cardinality(ResultsOf(t)) = 1
            ELSE ResultsOf(t) = {}

\* The page offers no signal of any category technology t has rules in.
NothingToRun(t) == \A c \in Caps : page[c] = None \/ techs[t][c] = <<>>

\* C6: every rule is evaluated against the signal of its own category,
\* which the page offers; a technology all of whose rules are in
\* categories the page does not offer has no evaluation and no result,
\* and when that holds of every technology the check ends without error.
C6_CategoryIndependence ==
    pc \in {"checked", "check_panicked"} =>
        /\ \A i \in 1..Len(evaluated) :
              /\ evaluated[i].signal = evaluated[i].cat
              /\ page[evaluated[i].cat] /= None
        /\ \A t \in DOMAIN techs :
              NothingToRun(t) =>
                  /\ ResultsOf(t) = {}
                  /\ \A i \in 1..Len(evaluated) : evaluated[i].tech /= t
        /\ (\A t \in DOMAIN techs : NothingToRun(t))
              => pc = "checked" /\ results = <<>>

\* A page that offers only text was checked: A, which declares only
\* headers rules, has no result, and B, which declares a text rule, has.
C6_Witness ==
    /\ pc = "checked"
    /\ page = PageWith({"text"})
    /\ techs["A"].headers /= <<>>
    /\ \A c \in Caps \ {"headers"} : techs["A"][c] = <<>>
    /\ ResultsOf("A") = {}
    /\ ResultsOf("B") /= {}

-----------------------------------------------------------------------------
(* Properties of the loader (SpecLoad).                                    *)

\* What compiling one value of a collection of the field gives.
CompileOne(field, x) ==
    IF x.t /= "str" THEN Err([kind |-> "ExpectString", key |-> <<>>])
    ELSE CASE field = "dom"     -> FromSelector(x.s)
           [] field = "implies" -> TaggedParse(x.s, "string")
           [] OTHER             -> TaggedParse(x.s, "pattern")

\* The rules of the values of the list that have no authoring error, in
\* their declared order.
RECURSIVE ValidRules(_, _)
ValidRules(field, list) ==
    IF list = <<>> THEN <<>>
    ELSE Let(CompileOne(field, Head(list)), LAMBDA r :
           IF r.tag = "Ok" THEN <<r.value>> \o ValidRules(field, Tail(list))
           ELSE ValidRules(field, Tail(list)))

\* The collection the loaded technology holds in the field.
LoadedRules(field) ==
    IF field = "headers" THEN techs["A"].headers[1][2] ELSE techs["A"][field]

\* C11: whatever authoring errors the rules of a collection have, the load
\* completes, and the technology holds the valid rules in declared order.
C11_FailSoft ==
    pc /= "collected" =>
        /\ pc = "loaded"
        /\ LoadedRules(kind) = ValidRules(kind, authored)

-----------------------------------------------------------------------------
(* Properties of the version compiler (SpecVersion).                       *)

\* Position of the first "?" of s, and of the first ":" after it (0 when
\* there is none).
FirstQuestion(s) ==
    IF \E i \in 1..Len(s) : s[i] = "?"
    THEN CHOOSE i \in 1..Len(s) : s[i] = "?" /\ \A j \in 1..(i - 1) : s[j] /= "?"
    ELSE 0

FirstColonAfter(s, q) ==
    IF \E i \in (q + 1)..Len(s) : s[i] = ":"
    THEN CHOOSE i \in (q + 1)..Len(s) :
            s[i] = ":" /\ \A j \in (q + 1)..(i - 1) : s[j] /= ":"
    ELSE 0

\* s is prefix "?" middle ":" suffix, the prefix without "?" and the middle
\* without ":".
HasShape(s) == FirstQuestion(s) > 0 /\ FirstColonAfter(s, FirstQuestion(s)) > 0

PrefixOf(s) == SubSeq(s, 1, FirstQuestion(s) - 1)

MiddleOf(s) ==
    SubSeq(s, FirstQuestion(s) + 1, FirstColonAfter(s, FirstQuestion(s)) - 1)

SuffixOf(s) == SubSeq(s, FirstColonAfter(s, FirstQuestion(s)) + 1, Len(s))

IsVar(r) == r.tag = "Ok" /\ IsSome(r.value) /\ r.value[1].tag = "Var"

\* r is what the conditional reading of s gives: an error unless the
\* prefix compiles to Var and both branches compile, and else the
\* Conditional of the three.
IsConditionalOf(r, s) ==
    Let(WappTechVersionValueParse(PrefixOf(s)), LAMBDA cv :
      Let(WappTechVersionValueParse(MiddleOf(s)), LAMBDA te :
        Let(WappTechVersionValueParse(SuffixOf(s)), LAMBDA fe :
          IF ~IsVar(cv) \/ te.tag = "Err" \/ fe.tag = "Err" THEN r.tag = "Err"
          ELSE r = Ok(Conditional(cv.value[1].i, te.value, fe.value)))))

\* r is what the reading of s as one value gives: an error when s is empty
\* or does not compile, and else Always of the value.
IsAlwaysOf(r, s) ==
    Let(WappTechVersionValueParse(s), LAMBDA v :
      IF v.tag = "Err" \/ v.value = None THEN r.tag = "Err"
      ELSE r = Ok(Always(v.value[1])))

\* C12, for every suffix: an expression of the shape prefix "?" middle ":"
\* suffix compiles as a Conditional (an error unless the prefix is a Var),
\* and every other expression as Always of one value (an error when empty).
C12_VersionPattern ==
    (pc = "parsed" /\ kind = "version") =>
        IF HasShape(authored) THEN IsConditionalOf(parsed, authored)
        ELSE IsAlwaysOf(parsed, authored)

\* C12, for a suffix on one line: the expression compiles as a Conditional
\* when it has the shape and no line feed follows the ":", and as Always
\* of one value otherwise.
C12_VersionPatternOneLine ==
    (pc = "parsed" /\ kind = "version") =>
        IF /\ HasShape(authored)
           /\ \A j \in 1..Len(SuffixOf(authored)) : SuffixOf(authored)[j] /= "\n"
        THEN IsConditionalOf(parsed, authored)
        ELSE IsAlwaysOf(parsed, authored)

\* \1?: compiled to a Conditional on group 1 with both branches empty.
C12_Witness ==
    /\ pc = "parsed"
    /\ kind = "version"
    /\ authored = <<BS, "1", "?", ":">>
    /\ parsed = Ok(Conditional(1, None, None))

\* s is a backslash followed by one or more digits of the class D, and
\* nothing else.
SpansBackref(s, D) ==
    Len(s) >= 2 /\ s[1] = BS /\ \A i \in 2..Len(s) : s[i] \in D

\* A backslash followed by a digit of the class D occurs in s.
HoldsBackref(s, D) == \E i \in 1..(Len(s) - 1) : s[i] = BS /\ s[i + 1] \in D

\* The digits of 2^31 - 1, up to which the model keeps an index as a number.
SmallMaxDigits == <<"2", "1", "4", "7", "4", "8", "3", "6", "4", "7">>

RECURSIVE DigitsValue(_, _)
DigitsValue(ds, acc) ==
    IF ds = <<>> THEN acc ELSE DigitsValue(Tail(ds), 10 * acc + DigitVal(Head(ds)))

\* The value v is Var(n) for the n that the run of ASCII digits ds denotes.
Denotes(v, ds) ==
    Let(StripZeros(ds), LAMBDA z :
      IF Len(z) < Len(SmallMaxDigits)
         \/ (Len(z) = Len(SmallMaxDigits) /\ DigitsLeq(z, SmallMaxDigits))
      THEN v = Var(DigitsValue(z, 0))
      ELSE v.tag = "Var" /\ v.s = z)

\* The run of ASCII digits ds denotes a number that a usize holds.
FitsUsize(ds) ==
    Let(StripZeros(ds), LAMBDA z :
      \/ Len(z) < Len(UsizeMaxDigits)
      \/ Len(z) = Len(UsizeMaxDigits) /\ DigitsLeq(z, UsizeMaxDigits))

\* C13, for every run of digits: the empty string gives None, a backslash
\* followed by digits and nothing else gives Var of their number, a
\* backslash-digits sequence inside a longer string is an error, and every
\* other string gives Const of itself.
C13_VersionValue ==
    (pc = "parsed" /\ kind = "value") =>
        IF authored = <<>> THEN parsed = Ok(None)
        ELSE IF SpansBackref(authored, Digits)
        THEN /\ parsed.tag = "Ok"
             /\ IsSome(parsed.value)
             /\ Denotes(parsed.value[1], Tail(authored))
        ELSE IF HoldsBackref(authored, Digits) THEN parsed.tag = "Err"
        ELSE parsed = Ok(Some(Const(authored)))

\* C13, for the numbers a usize holds: as above, but Var only for ASCII
\* digits whose number fits a usize, and an error for every other string
\* in which a backslash is followed by a decimal digit of any script.
C13_VersionValueRepresentable ==
    (pc = "parsed" /\ kind = "value") =>
        IF authored = <<>> THEN parsed = Ok(None)
        ELSE IF SpansBackref(authored, Digits) /\ FitsUsize(Tail(authored))
        THEN /\ parsed.tag = "Ok"
             /\ IsSome(parsed.value)
             /\ Denotes(parsed.value[1], Tail(authored))
        ELSE IF HoldsBackref(authored, DecimalDigits) THEN parsed.tag = "Err"
        ELSE parsed = Ok(Some(Const(authored)))

\* \11 compiled to Var(11).
C13_Witness ==
    /\ pc = "parsed"
    /\ kind = "value"
    /\ authored = <<BS, "1", "1">>
    /\ parsed = Ok(Some(Var(11)))

-----------------------------------------------------------------------------
(* Properties of one rule (SpecRule).                                      *)

\* The segments of the authored string after its content.
Directives == Tail(SplitDelim(authored))

HasColon(seg) == \E i \in 1..Len(seg) : seg[i] = ":"

KeyOf(seg) == SplitOnce(seg, ":")[1][1]

ValueOf(seg) == SplitOnce(seg, ":")[1][2]

UnknownKey(seg) ==
    HasColon(seg) /\ KeyOf(seg) \notin {<<"confidence">>, <<"version">>}

\* A segment the directive grammar accepts: confidence:<integer> or
\* version:<version expression>.
WellFormed(seg) ==
    /\ HasColon(seg)
    /\ \/ KeyOf(seg) = <<"confidence">> /\ ParseI32(ValueOf(seg)).tag = "Ok"
       \/ /\ KeyOf(seg) = <<"version">>
          /\ WappTechVersionPatternParse(ValueOf(seg)).tag = "Ok"

\* C3: every rule Tagged::parse produces, and every result a check of it
\* returns, has a confidence in 1..=100.
C3_ConfidenceRange ==
    /\ (pc \in {"parsed", "evaluated"} /\ parsed.tag = "Ok")
          => parsed.value.confidence \in 1..100
    /\ (pc = "evaluated" /\ outcome.tag = "Ok" /\ IsSome(outcome.value))
          => outcome.value[1].confidence \in 1..100

\* The version value a match selects: the value of Always, or the branch
\* of Conditional that the presence of capture group cond_var picks.
SelectedValue(version, c) ==
    IF version = None THEN None
    ELSE IF version[1].tag = "Always" THEN Some(version[1].value)
    ELSE IF IsSome(CapturesGet(c, version[1].cond_var)) THEN version[1].true_expr
    ELSE version[1].false_expr

\* A pattern rule matched, and the version it selects is Var(i) for a
\* group i that is not in the pattern or took no part in the match.
MissingCapture ==
    /\ pc = "evaluated"
    /\ kind = "pattern"
    /\ IsSome(RegexCaptures(parsed.value.inner, input))
    /\ LET c == RegexCaptures(parsed.value.inner, input)[1]
           v == SelectedValue(parsed.value.version, c)
       IN  IsSome(v) /\ v[1].tag = "Var" /\ CapturesGet(c, v[1].i) = None

\* C7: when a pattern matches and the selected version is Var(i) for a
\* missing capture group, the rule still returns an outcome with its
\* confidence and no version.
C7_SafeDegradation ==
    MissingCapture =>
        outcome = Ok(Some(CheckResult(parsed.value.confidence, None)))

\* C8: the check of every Unit rule the compiler builds returns Some, with
\* the rule's confidence and the Always(Const) version if it has one.
C8_UnitCheckTotal ==
    (pc = "evaluated" /\ kind \in {"selector", "exists"}) =>
        /\ outcome.tag = "Ok"
        /\ IsSome(outcome.value)
        /\ outcome.value[1].confidence = parsed.value.confidence
        /\ outcome.value[1].version =
              IF /\ IsSome(parsed.value.version)
                 /\ parsed.value.version[1].tag = "Always"
                 /\ parsed.value.version[1].value.tag = "Const"
              THEN Some(parsed.value.version[1].value.s)
              ELSE None

\* C9: a string with a segment after the content that has no ":" makes
\* Tagged::parse return an error; it produces no rule and does not abort.
C9_MalformedDirectiveIsError ==
    (pc = "parsed" /\ \E n \in 1..Len(Directives) : ~HasColon(Directives[n]))
        => parsed.tag = "Err"

\* C10, for every unknown key: a string with a key:value segment whose key is neither
\* confidence nor version makes Tagged::parse return an error naming that
\* key.
C10_UnknownDirectiveNamed ==
    pc = "parsed" =>
        \A n \in 1..Len(Directives) :
            UnknownKey(Directives[n]) =>
                /\ parsed.tag = "Err"
                /\ parsed.error.kind = "UnknownTag"
                /\ parsed.error.key = KeyOf(Directives[n])

\* C10, for the first rejected segment: when the first segment that is
\* not a well-formed confidence or version directive is a key:value
\* segment with another key, Tagged::parse returns an error naming that
\* key and no rule.
C10_FirstUnknownDirectiveNamed ==
    pc = "parsed" =>
        \A n \in 1..Len(Directives) :
            (/\ UnknownKey(Directives[n])
             /\ \A m \in 1..(n - 1) : WellFormed(Directives[m]))
                => parsed = Err([kind |-> "UnknownTag", key |-> KeyOf(Directives[n])])

\* An unknown key after a well-formed directive was rejected by name.
C10_Witness ==
    /\ pc = "parsed"
    /\ Len(Directives) = 2
    /\ WellFormed(Directives[1])
    /\ UnknownKey(Directives[2])
    /\ parsed.tag = "Err"
    /\ parsed.error.key = KeyOf(Directives[2])

\* The directives of the authored string with the given key.
WithKey(key) ==
    {n \in 1..Len(Directives) :
        HasColon(Directives[n]) /\ KeyOf(Directives[n]) = key}

\* The last of a non-empty set of positions.
LastOf(S) == CHOOSE n \in S : \A k \in S : k <= n

\* The bare content: the authored string up to its first delimiter.
ContentOf(s) == SplitDelim(s)[1]

\* C14: when every directive is well-formed and the content compiles,
\* Tagged::parse gives the rule whose inner value is the compiled first
\* segment, whose confidence is that of the last confidence directive (100
\* without one) and whose version is the compiled last version directive
\* (None without one); the first segment holds no delimiter.
C14_DirectiveResult ==
    (/\ pc = "parsed"
     /\ kind \in {"pattern", "string", "exists"}
     /\ \A n \in 1..Len(Directives) : WellFormed(Directives[n])
     /\ InnerParser(kind, ContentOf(authored)).tag = "Ok")
    => /\ parsed.tag = "Ok"
       /\ parsed.value.inner = InnerParser(kind, ContentOf(authored)).value
       /\ parsed.value.confidence =
             IF WithKey(<<"confidence">>) = {} THEN 100
             ELSE ParseI32(ValueOf(Directives[LastOf(WithKey(<<"confidence">>))])).value
       /\ parsed.value.version =
             IF WithKey(<<"version">>) = {} THEN None
             ELSE Some(WappTechVersionPatternParse(
                          ValueOf(Directives[LastOf(WithKey(<<"version">>))])).value)
       /\ \A i \in 1..(Len(ContentOf(authored)) - 1) :
             ~(ContentOf(authored)[i] = BS /\ ContentOf(authored)[i + 1] = ";")

\* foo\;confidence:80\;version:\1 compiled to confidence 80 and version
\* Always(Var(1)).
C14_Witness ==
    /\ pc = "parsed"
    /\ kind = "pattern"
    /\ authored = Join(<<"foo">>, << <<"confidence", ":", "8", "0">>,
                                    <<"version", ":", BS, "1">> >>)
    /\ parsed.tag = "Ok"
    /\ parsed.value.confidence = 80
    /\ parsed.value.version = Some(Always(Var(1)))

\* The version a match resolves to: nothing without a selected value, the
\* text of a Const, the text of the capture group of a Var.
ResolvedVersion(version, c) ==
    Let(SelectedValue(version, c), LAMBDA v :
      IF v = None THEN None
      ELSE IF v[1].tag = "Const" THEN Some(v[1].s)
      ELSE CapturesGet(c, v[1].i))

\* C15: a pattern that does not match gives no outcome; one that matches
\* gives an outcome with the rule's confidence and the version resolved
\* from Always, or from the branch of Conditional that the participation
\* of group cond_var selects.
C15_VersionResolution ==
    (pc = "evaluated" /\ kind = "pattern") =>
        Let(RegexCaptures(parsed.value.inner, input), LAMBDA c :
          IF c = None THEN outcome = Ok(None)
          ELSE outcome = Ok(Some(CheckResult(
                              parsed.value.confidence,
                              ResolvedVersion(parsed.value.version, c[1])))))

-----------------------------------------------------------------------------
(* Properties of the DOM check (SpecDom).                                  *)

\* The elements of the document that the selector of the group matches.
MatchedElements == Select(page["dom"][1], techs["A"].dom[1].selector)

\* Some evaluation under the key ran rule i against the text.
EvaluatedOn(key, i, text) ==
    \E n \in 1..Len(evaluated) :
        /\ evaluated[n].key = key
        /\ evaluated[n].idx = i
        /\ evaluated[n].input = text

\* The outcome of the check is at least as confident as the outcome r.
FoldedIn(r) ==
    (r.tag = "Ok" /\ IsSome(r.value)) =>
        /\ outcome.tag = "Ok"
        /\ IsSome(outcome.value)
        /\ outcome.value[1].confidence >= r.value[1].confidence

\* Element e of the matched ones had its exists check, the rules of every
\* attribute it carries, and the text rule of the group evaluated and
\* folded into the outcome.
ElementEvaluated(pat, els, e) ==
    /\ \E n \in 1..Len(evaluated) :
           evaluated[n].key = "exists" /\ evaluated[n].idx = e
    /\ FoldedIn(TaggedUnitCheck(pat.exists))
    /\ \A a \in 1..Len(pat.attributes) :
           Let(ElAttr(els[e], pat.attributes[a][1]), LAMBDA v :
             v /= None =>
               \A i \in 1..Len(pat.attributes[a][2]) :
                   /\ EvaluatedOn(pat.attributes[a][1], i, v[1])
                   /\ FoldedIn(TaggedRegexCheck(pat.attributes[a][2][i], v[1])))
    /\ pat.text /= None =>
           /\ EvaluatedOn("text", 1, els[e].text)
           /\ FoldedIn(TaggedRegexCheck(pat.text[1], els[e].text))

\* C16: unless an outcome of confidence >= 100 ended the check, every
\* element the selector matches has its exists check, every attribute rule
\* whose attribute it carries and the text rule evaluated, and the outcome
\* of the check is at least as confident as each of their outcomes.
C16_DomEvaluation ==
    (pc = "checked" /\ \A n \in 1..Len(evaluated) : ~Terminal(evaluated[n])) =>
        \A e \in 1..Len(MatchedElements) :
            ElementEvaluated(techs["A"].dom[1], MatchedElements, e)

-----------------------------------------------------------------------------
(* Properties of the keyed categories (SpecKeyed).                         *)

\* The headers or cookies the checked page lists.
Entries == page[kind][1]

\* The declared key and the name of a page entry agree: up to ASCII case
\* for a header, exactly for a cookie.
NamesAgree(key, name) ==
    IF kind = "headers" THEN Lower(key) = Lower(name) ELSE key = name

\* Some entry of the page has a name that agrees with the declared key.
HasEntry(key) == \E h \in 1..Len(Entries) : NamesAgree(key, Entries[h][1])

\* C17: a rule is evaluated only under a declared key that agrees with the
\* name of a page entry, and against that entry's value; unless an outcome
\* of confidence >= 100 ended the check, every rule under such a key is
\* evaluated; when no key agrees with any entry there is no outcome.
C17_KeyedFiltering ==
    pc = "checked" =>
        /\ \A n \in 1..Len(evaluated) :
               \E h \in 1..Len(Entries) :
                   /\ NamesAgree(evaluated[n].key, Entries[h][1])
                   /\ evaluated[n].input = Entries[h][2]
        /\ (\A n \in 1..Len(evaluated) : ~Terminal(evaluated[n])) =>
               \A k \in 1..Len(authored) :
                   HasEntry(authored[k][1]) =>
                       \A i \in 1..Len(authored[k][2]) :
                           \E n \in 1..Len(evaluated) :
                               /\ evaluated[n].key = authored[k][1]
                               /\ evaluated[n].idx = i
        /\ (\A k \in 1..Len(authored) : ~HasEntry(authored[k][1])) =>
               /\ evaluated = <<>>
               /\ outcome = Ok(None)

\* The header Server was declared and the page lists server and date, or
\* the cookie Server was declared and the page lists server and Server:
\* the rule ran once, against the one entry whose name agrees.
C17_Witness ==
    /\ pc = "checked"
    /\ Len(authored) = 1
    /\ authored[1][1] = "Server"
    /\ Len(Entries) = 2
    /\ Entries[1][1] = "server"
    /\ Entries[2][1] = IF kind = "headers" THEN "date" ELSE "Server"
    /\ Len(evaluated) = 1
    /\ evaluated[1].key = "Server"
    /\ outcome.tag = "Ok"
    /\ IsSome(outcome.value)

\* The outcome of rule i under the declared key k against the value of
\* the first page entry whose name agrees with the key.
OutcomeOf(k, i) ==
    Let(CHOOSE h \in 1..Len(Entries) :
            /\ NamesAgree(authored[k][1], Entries[h][1])
            /\ \A g \in 1..(h - 1) : ~NamesAgree(authored[k][1], Entries[g][1]),
        LAMBDA h : PatCheck(IF kind = "headers" THEN "header" ELSE "str",
                            techs["A"][kind][k][2][i], Entries[h][2]))

\* The rules (key position, rule position) whose key agrees with a page
\* entry and whose outcome there has confidence >= 100.
FullRules ==
    {r \in (1..Len(authored)) \X (1..MaxKeys) :
        /\ r[2] <= Len(authored[r[1]][2])
        /\ HasEntry(authored[r[1]][1])
        /\ OutcomeOf(r[1], r[2]).tag = "Ok"
        /\ IsSome(OutcomeOf(r[1], r[2]).value)
        /\ OutcomeOf(r[1], r[2]).value[1].confidence >= 100}

\* r stands before q in the declared order of the technology.
DeclaredBefore(r, q) == r[1] < q[1] \/ (r[1] = q[1] /\ r[2] < q[2])

\* C18: when rules of confidence >= 100 stand under declared keys that
\* agree with page entries, the check returns the outcome of the first of
\* them in the declared order of the technology, whatever the order in
\* which the page lists its headers or cookies.
C18_DeclaredOrder ==
    (pc = "checked" /\ FullRules /= {}) =>
        \E r \in FullRules :
            /\ \A q \in FullRules : q /= r => DeclaredBefore(r, q)
            /\ outcome = OutcomeOf(r[1], r[2])

-----------------------------------------------------------------------------
(* Properties of the fold (SpecAgg).                                       *)

\* The evaluations that matched.
MatchedEvents == {n \in 1..Len(evaluated) : Matched(evaluated[n])}

ConfidenceAt(n) == evaluated[n].out.value[1].confidence

\* The earliest of the matched evaluations with the highest confidence.
EarliestHighest ==
    CHOOSE n \in MatchedEvents :
        /\ \A m \in MatchedEvents : ConfidenceAt(m) <= ConfidenceAt(n)
        /\ \A m \in MatchedEvents : m < n => ConfidenceAt(m) < ConfidenceAt(n)

\* C19: what the check returns is the outcome, confidence and version
\* together, of one evaluation; when the matched evaluations all have a
\* confidence below 100 it is the outcome of the earliest evaluation among
\* those with the highest confidence.
C19_StrictReplacement ==
    pc = "checked" =>
        /\ outcome.tag = "Ok"
        /\ IsSome(outcome.value) =>
               \E n \in MatchedEvents : evaluated[n].out = outcome
        /\ (/\ MatchedEvents /= {}
            /\ \A n \in MatchedEvents : ConfidenceAt(n) < 100)
           => outcome = evaluated[EarliestHighest].out

-----------------------------------------------------------------------------
(* Properties of the two-level fold (SpecNested).                          *)

\* The rules of the string categories whose signal the page exposes, in
\* category order then declared order, each with its signal.
RECURSIVE FlatRules(_, _, _)
FlatRules(tech, p, c) ==
    IF c > Len(StringCats) THEN <<>>
    ELSE (IF p[StringCats[c]] = None THEN <<>>
          ELSE [i \in 1..Len(tech[StringCats[c]]) |->
                   [cat |-> StringCats[c], idx |-> i,
                    rule |-> tech[StringCats[c]][i],
                    inp |-> p[StringCats[c]][1]]])
         \o FlatRules(tech, p, c + 1)

\* One aggregation over the outcomes of the rules rs, in order.
RECURSIVE FlatLoop(_, _, _, _)
FlatLoop(name, rs, i, acc) ==
    IF i > Len(rs) \/ acc.done THEN acc
    ELSE Let(TaggedRegexCheck(rs[i].rule, rs[i].inp), LAMBDA r :
           FlatLoop(name, rs, i + 1,
                    HandleCheckResult(
                        Logged(acc, Event(Ctx(name, rs[i].cat, "", rs[i].cat),
                                          rs[i].idx, rs[i].inp, r)),
                        r)))

FlatCheck(tech, p) ==
    Finish(FlatLoop(tech.name, FlatRules(tech, p, 1), 1, NewAcc))

\* C20: the check of a technology that declares url, html and text rules
\* returns what one aggregation over all their outcomes, in category order
\* then declared order, returns, and evaluates exactly the same rules.
C20_NestedEqualsFlat ==
    pc = "checked" =>
        Let(FlatCheck(techs["A"], page), LAMBDA f :
          /\ outcome = f.res
          /\ evaluated = f.log)

\* Rules of two categories were evaluated and tied at confidence 70: the
\* outcome of the earlier category, without version, is the result.
C20_Witness ==
    /\ pc = "checked"
    /\ Len(evaluated) = 2
    /\ evaluated[1].cat = "url"
    /\ evaluated[1].out = Ok(Some(CheckResult(70, None)))
    /\ evaluated[2].cat = "text"
    /\ evaluated[2].out = Ok(Some(CheckResult(70, Some(<<"v1">>))))
    /\ outcome = Ok(Some(CheckResult(70, None)))

=============================================================================
